---- MODULE Spec2Model ----
(***************************************************************************)
(* Model of wtfdi.py: implicit dependency propagation through frame        *)
(* locals.  context(deps) stores a dict under DEP_VAR in the f_locals of   *)
(* the frame that runs the with statement; a function wrapped with         *)
(* with_context reads DEP_VAR from the f_locals of its direct caller and   *)
(* passes every parameter annotated Depends as a keyword argument.         *)
(*                                                                         *)
(* Each thread has its own call stack.  stack[t][1] is the thread's bottom *)
(* frame (the __main__ module frame, or the function a thread was started  *)
(* on), the only frame whose f_back is None.  Frames of the library itself *)
(* (the generator of context, contextmanager's __enter__, _wrapper) hold   *)
(* no DEP_VAR and run no user code; they are not entries of stack.         *)
(***************************************************************************)
EXTENDS Integers, Sequences, FiniteSets, TLC

VARIABLES
    stack,      \* stack[t]: the frames of thread t, bottom first; a frame is [f_locals |-> dict]
    scopes,     \* scopes[t]: the with context(...) blocks whose body is running, outermost
                \* first: [frame, deps, nested (a scope was entered inside this one)]
    mode,       \* mode[t]: "run" | "build" (inside _build_dependencies) | "raise" | "dead"
    exc,        \* exc[t]: the exception propagating in thread t ("" when none)
    walk,       \* walk[t]: the locals of a running _build_dependencies loop
    last,       \* what the step just taken did, when it was a call of a wrapped function
    lastExit,   \* lastExit[t]: the scope thread t left in the step before its latest call,
                \* and how ("normal" | "error"); NoExit when that step left no scope
    wrappedIn,  \* wrappedIn[f]: the bindings in force where with_context(f) ran
    prev,       \* the latest wrapped call that was kept for comparison with a later one
    annotations \* annotations[f]: f.__annotations__, in declaration order

vars == <<stack, scopes, mode, exc, walk, last, lastExit, wrappedIn, prev, annotations>>

----------------------------------------------------------------------------
(* Bounds *)

MaxDepth == 3       \* frames on one thread's stack
MaxScopes == 2      \* nested with context(...) blocks on one thread
MaxSpin == 2        \* iterations of the frame walk that are counted
MTDepth == 2        \* frames on one thread's stack, two threads running
MTScopes == 2       \* nested with context(...) blocks on one thread, two threads running

----------------------------------------------------------------------------
(* Values *)

DEP_VAR == "__wtfdi_deps__"

Threads == {"main", "worker"}

None == 0

EmptyDict == [n \in {} |-> 0]

\* a | b on dicts: the right operand wins on a shared key
DictUnion(a, b) ==
    [n \in DOMAIN a \cup DOMAIN b |-> IF n \in DOMAIN b THEN b[n] ELSE a[n]]

\* d.get(k, default)
DictGet(d, k, default) == IF k \in DOMAIN d THEN d[k] ELSE default

\* d.pop(k) leaves d without k
DictWithout(d, k) == [n \in DOMAIN d \ {k} |-> d[n]]

\* functools.reduce(lambda a, b: a | b, dependencies, {})
RECURSIVE Reduce(_, _)
Reduce(dependencies, acc) ==
    IF dependencies = <<>> THEN acc
    ELSE Reduce(Tail(dependencies), DictUnion(acc, Head(dependencies)))

\* The keyword arguments a program passes to context(...): the two scopes of
\* the nested-scope scenario, with values that differ from thread to thread.
Bindings(t) ==
    IF t = "main" THEN {"a" :> 1, "a" :> 2 @@ "b" :> 3}
    ELSE {"a" :> 5, "a" :> 6 @@ "b" :> 7}

\* Callables and their __annotations__, in declaration order.
Funcs == {"need_a", "need_ab", "no_deps", "late"}

Annotations(f) ==
    CASE f = "need_a"  -> <<[name |-> "a", anno |-> "Depends"]>>
      [] f = "need_ab" -> <<[name |-> "x", anno |-> "str"],
                            [name |-> "a", anno |-> "Depends"],
                            [name |-> "b", anno |-> "Depends"]>>
      [] f = "no_deps" -> <<[name |-> "x", anno |-> "str"]>>
      [] f = "late"    -> <<[name |-> "a", anno |-> "Depends"]>>

\* What a caller passes to a wrapped function
CallerArgs == {<<"Kotlin">>}
CallerKwargs == {EmptyDict, "a" :> 9, "y" :> 8}

Unwrapped == [unwrapped |-> TRUE]

----------------------------------------------------------------------------
(* Frames *)

Frame(locals) == [f_locals |-> locals]

\* frame.f_back of the i-th frame of a stack: the frame below, None for the bottom frame
f_back(i) == IF i > 1 THEN i - 1 ELSE None

Top(t) == Len(stack[t])

SetLocals(t, i, locals) ==
    [stack EXCEPT ![t][i] = Frame(locals)]

----------------------------------------------------------------------------
(* _resolve_dependencies *)

RECURSIVE resolve_dependencies_of(_)
resolve_dependencies_of(annos) ==
    IF annos = <<>> THEN <<>>
    ELSE IF Head(annos).anno = "Depends"
         THEN <<Head(annos).name>> \o resolve_dependencies_of(Tail(annos))
         ELSE resolve_dependencies_of(Tail(annos))

\* A _resolve_dependencies that takes every annotated parameter for a dependency
resolve_dependencies_unfiltered(func) ==
    [i \in 1..Len(annotations[func]) |-> annotations[func][i].name]

\* A _resolve_dependencies that keeps the list it derived from the annotations
\* func was declared with
resolve_dependencies_cached(func) == resolve_dependencies_of(Annotations(func))

\* _resolve_dependencies(func): derived from func.__annotations__ as they are now
resolve_dependencies(func) == resolve_dependencies_of(annotations[func])

----------------------------------------------------------------------------
(* with_context._wrapper *)

\* prev when no wrapped call has been kept
NoPrev ==
    [kind |-> "none", thread |-> "", frame |-> 0, func |-> "", args |-> <<>>,
     given |-> EmptyDict, active |-> <<>>, annotations |-> <<>>, deps |-> <<>>,
     kwargs |-> EmptyDict, name |-> ""]

\* last when the step just taken was no call of a wrapped function.
\* args and given are what the caller passed, passed and kwargs what the
\* target was called with, deps the names the wrapper resolved, before the
\* call kept in prev when this one was made.
NoCall ==
    [kind |-> "none", thread |-> "", func |-> "", args |-> <<>>, given |-> EmptyDict,
     source |-> EmptyDict, bound |-> {}, passed |-> <<>>, kwargs |-> EmptyDict,
     name |-> "", available |-> {}, invoked |-> FALSE, result |-> "",
     deps |-> <<>>, before |-> NoPrev]

\* A wrapper that keeps, as source, the bindings open where with_context(func) ran
WrapperSourceAtWrap(t, func) == wrappedIn[func]

\* A wrapper that reads DEP_VAR from the module globals, which every thread shares
WrapperSourceShared(t, func) ==
    DictGet(stack["main"][1].f_locals, DEP_VAR, EmptyDict)

\* frame = inspect.currentframe().f_back; source = frame.f_locals.get(DEP_VAR, {})
WrapperSource(t, func) ==
    DictGet(stack[t][Top(t)].f_locals, DEP_VAR, EmptyDict)

\* A wrapper that creates the entry it looks up: frame.f_locals.setdefault(DEP_VAR, {})
LocalsAfterSetdefault(t, func) ==
    DictUnion(DEP_VAR :> EmptyDict, stack[t][Top(t)].f_locals)

\* The locals of the calling frame once the wrapper has run: .get only reads them
LocalsAfterGet(t, func) == stack[t][Top(t)].f_locals

\* A loop that leaves alone a name the caller passed: kwargs.setdefault(dep, source[dep])
RECURSIVE InjectCallerWins(_, _, _, _)
InjectCallerWins(deps, source, kwargs, bound) ==
    IF deps = <<>>
    THEN [kind |-> "call", kwargs |-> kwargs, bound |-> bound, name |-> "",
          available |-> {}, source |-> source]
    ELSE IF Head(deps) \in DOMAIN kwargs
         THEN InjectCallerWins(Tail(deps), source, kwargs, bound)
         ELSE IF Head(deps) \notin DOMAIN source
              THEN [kind |-> "raise", kwargs |-> kwargs, bound |-> bound,
                    name |-> Head(deps), available |-> DOMAIN source, source |-> source]
              ELSE InjectCallerWins(Tail(deps), source,
                                    DictUnion(kwargs, Head(deps) :> source[Head(deps)]),
                                    bound \cup {Head(deps)})

\* The for loop of _wrapper over the dependency names still to bind:
\* either every name is bound into kwargs, or the first name that is not
\* in source raises DependencyNotFoundError(dep, func, source.keys()).
\* bound is the set of names the loop has assigned in kwargs.
RECURSIVE Inject(_, _, _, _)
Inject(deps, source, kwargs, bound) ==
    IF deps = <<>>
    THEN [kind |-> "call", kwargs |-> kwargs, bound |-> bound, name |-> "",
          available |-> {}, source |-> source]
    ELSE IF Head(deps) \notin DOMAIN source
         THEN [kind |-> "raise", kwargs |-> kwargs, bound |-> bound, name |-> Head(deps),
               available |-> DOMAIN source, source |-> source]
         ELSE Inject(Tail(deps), source,
                     DictUnion(kwargs, Head(deps) :> source[Head(deps)]),
                     bound \cup {Head(deps)})

\* A wrapper that builds the keyword arguments of the target from the
\* dependencies alone
wrapper_without_given(t, func, args, kwargs) ==
    LET deps == resolve_dependencies(func)
        r == Inject(deps, WrapperSource(t, func), EmptyDict, {})
    IN  [kind |-> r.kind, deps |-> deps, source |-> r.source, bound |-> r.bound,
         args |-> args, kwargs |-> r.kwargs, name |-> r.name, available |-> r.available]

\* _wrapper(*args, **kwargs) up to the call of func: the names it resolves,
\* what it read, and what it is about to pass to func (args, kwargs) or to
\* DependencyNotFoundError (name, available)
wrapper(t, func, args, kwargs) ==
    LET deps == resolve_dependencies(func)
        r == Inject(deps, WrapperSource(t, func), kwargs, {})
    IN  [kind |-> r.kind, deps |-> deps, source |-> r.source, bound |-> r.bound,
         args |-> args, kwargs |-> r.kwargs, name |-> r.name, available |-> r.available]

----------------------------------------------------------------------------
(* State after import of the module, before any scope is opened *)

NoExit == [how |-> "none", deps |-> EmptyDict]

NoWalk == [frame |-> 0, dependencies |-> <<>>, n |-> 0]

Init ==
    /\ stack = [t \in Threads |-> <<Frame(EmptyDict)>>]
    /\ scopes = [t \in Threads |-> <<>>]
    /\ mode = [t \in Threads |-> "run"]
    /\ exc = [t \in Threads |-> ""]
    /\ walk = [t \in Threads |-> NoWalk]
    /\ last = NoCall
    /\ lastExit = [t \in Threads |-> NoExit]
    /\ wrappedIn = [f \in Funcs |-> IF f = "late" THEN Unwrapped ELSE EmptyDict]
    /\ prev = NoPrev
    /\ annotations = [f \in Funcs |-> Annotations(f)]

\* The bindings of the scopes open on thread t, merged outermost first
OpenBindings(t) ==
    Reduce([i \in 1..Len(scopes[t]) |-> scopes[t][i].deps], EmptyDict)

----------------------------------------------------------------------------
(* User code: plain calls and returns, raising and catching *)

\* The running frame calls a function that is not the wrapper
CallPlain(t) ==
    /\ mode[t] = "run"
    /\ Top(t) < MaxDepth
    /\ stack' = [stack EXCEPT ![t] = Append(@, Frame(EmptyDict))]
    /\ last' = NoCall
    /\ lastExit' = [lastExit EXCEPT ![t] = NoExit]
    /\ UNCHANGED <<scopes, mode, exc, walk, wrappedIn, prev, annotations>>

\* A with block of the running frame is still open
HasOpenScope(t) ==
    /\ scopes[t] # <<>>
    /\ scopes[t][Len(scopes[t])].frame = Top(t)

\* The running frame returns to its caller
Return(t) ==
    /\ mode[t] = "run"
    /\ Top(t) > 1
    /\ ~HasOpenScope(t)
    /\ stack' = [stack EXCEPT ![t] = SubSeq(@, 1, Len(@) - 1)]
    /\ last' = NoCall
    /\ lastExit' = [lastExit EXCEPT ![t] = NoExit]
    /\ UNCHANGED <<scopes, mode, exc, walk, wrappedIn, prev, annotations>>

\* User code raises an error of its own
Raise(t) ==
    /\ mode[t] = "run"
    /\ mode' = [mode EXCEPT ![t] = "raise"]
    /\ exc' = [exc EXCEPT ![t] = "BodyError"]
    /\ last' = NoCall
    /\ lastExit' = [lastExit EXCEPT ![t] = NoExit]
    /\ UNCHANGED <<stack, scopes, walk, wrappedIn, prev, annotations>>

\* A try/except of the running frame handles the propagating error
Catch(t) ==
    /\ mode[t] = "raise"
    /\ mode' = [mode EXCEPT ![t] = "run"]
    /\ exc' = [exc EXCEPT ![t] = ""]
    /\ last' = NoCall
    /\ lastExit' = [lastExit EXCEPT ![t] = NoExit]
    /\ UNCHANGED <<stack, scopes, walk, wrappedIn, prev, annotations>>

----------------------------------------------------------------------------
(* context *)

\* _build_dependencies(frame) where the while loop is never entered:
\* dependencies is still the empty list when reduce folds it
build_dependencies(t, frame) == Reduce(<<>>, EmptyDict)

\* with context(deps): in the running frame.  frame is the running frame
\* (two frames back from the generator).  _build_dependencies tests
\* frame.f_back: for the bottom frame the loop is skipped, the layer is
\* stored and the body starts; for any other frame the loop is entered.
EnterContext(t, deps) ==
    /\ mode[t] = "run"
    /\ Len(scopes[t]) < MaxScopes
    /\ last' = NoCall
    /\ lastExit' = [lastExit EXCEPT ![t] = NoExit]
    /\ LET frame == Top(t) IN
       IF f_back(frame) = None
       THEN LET outer_dependencies == build_dependencies(t, frame) IN
            /\ stack' = SetLocals(t, frame,
                    DictUnion(stack[t][frame].f_locals,
                              DEP_VAR :> DictUnion(outer_dependencies, deps)))
            /\ scopes' = [scopes EXCEPT ![t] =
                    Append([i \in 1..Len(@) |-> [@[i] EXCEPT !.nested = TRUE]],
                           [frame |-> frame, deps |-> deps, nested |-> FALSE])]
            /\ UNCHANGED <<mode, exc, walk, wrappedIn, prev, annotations>>
       ELSE /\ mode' = [mode EXCEPT ![t] = "build"]
            /\ walk' = [walk EXCEPT ![t] = [frame |-> frame, dependencies |-> <<>>, n |-> 0]]
            /\ UNCHANGED <<stack, scopes, exc, wrappedIn, prev, annotations>>

\* One iteration of "while frame.f_back:".  The body appends the frame's
\* layer when it has one and assigns nothing to frame, so the test reads
\* the same frame again.  n counts the iterations up to MaxSpin.
BuildLoop(t) ==
    /\ mode[t] = "build"
    /\ f_back(walk[t].frame) # None
    /\ LET locals == stack[t][walk[t].frame].f_locals
           grown == IF DEP_VAR \in DOMAIN locals /\ Len(walk[t].dependencies) < MaxSpin
                    THEN Append(walk[t].dependencies, locals[DEP_VAR])
                    ELSE walk[t].dependencies
       IN walk' = [walk EXCEPT ![t] = [frame |-> walk[t].frame,
                                      dependencies |-> grown,
                                      n |-> IF @.n < MaxSpin THEN @.n + 1 ELSE @.n]]
    /\ last' = NoCall
    /\ lastExit' = [lastExit EXCEPT ![t] = NoExit]
    /\ UNCHANGED <<stack, scopes, mode, exc, wrappedIn, prev, annotations>>

\* The finally clause of the innermost open scope of thread t:
\* frame.f_locals.pop(DEP_VAR), a KeyError when the frame holds no DEP_VAR.
\* how tells whether the body ended normally or with an error.
Finally(t, how) ==
    LET scope == scopes[t][Len(scopes[t])]
        locals == stack[t][scope.frame].f_locals
    IN /\ scopes' = [scopes EXCEPT ![t] = SubSeq(@, 1, Len(@) - 1)]
       /\ lastExit' = [lastExit EXCEPT ![t] = [how |-> how, deps |-> scope.deps]]
       /\ IF DEP_VAR \in DOMAIN locals
          THEN /\ stack' = SetLocals(t, scope.frame, DictWithout(locals, DEP_VAR))
               /\ UNCHANGED <<mode, exc>>
          ELSE /\ mode' = [mode EXCEPT ![t] = "raise"]
               /\ exc' = [exc EXCEPT ![t] = "KeyError"]
               /\ UNCHANGED stack

\* The body of the innermost with block of the running frame ends normally
ExitContext(t) ==
    /\ mode[t] = "run"
    /\ HasOpenScope(t)
    /\ Finally(t, "normal")
    /\ last' = NoCall
    /\ UNCHANGED <<walk, wrappedIn, prev, annotations>>

\* A propagating error leaves one block: the innermost with block of the
\* running frame (its finally clause runs), else the running frame itself,
\* else the thread.
Unwind(t) ==
    /\ mode[t] = "raise"
    /\ last' = NoCall
    /\ IF HasOpenScope(t)
       THEN Finally(t, "error") /\ UNCHANGED <<walk, wrappedIn, prev, annotations>>
       ELSE IF Top(t) > 1
       THEN /\ stack' = [stack EXCEPT ![t] = SubSeq(@, 1, Len(@) - 1)]
            /\ lastExit' = [lastExit EXCEPT ![t] = NoExit]
            /\ UNCHANGED <<scopes, mode, exc, walk, wrappedIn, prev, annotations>>
       ELSE /\ mode' = [mode EXCEPT ![t] = "dead"]
            /\ lastExit' = [lastExit EXCEPT ![t] = NoExit]
            /\ UNCHANGED <<stack, scopes, exc, walk, wrappedIn, prev, annotations>>

----------------------------------------------------------------------------
(* with_context *)

\* with_context(func): the closure keeps func and nothing else
Wrap(t, func) ==
    /\ mode[t] = "run"
    /\ wrappedIn[func] = Unwrapped
    /\ wrappedIn' = [wrappedIn EXCEPT ![func] = OpenBindings(t)]
    /\ last' = NoCall
    /\ lastExit' = [lastExit EXCEPT ![t] = NoExit]
    /\ UNCHANGED <<stack, scopes, mode, exc, walk, prev, annotations>>

\* The running frame of thread t calls the wrapper of func.  Either the
\* wrapper raises DependencyNotFoundError, or it calls func(*args, **kwargs),
\* which returns or raises (fails).
call(t, func, args, kwargs, fails) ==
    /\ mode[t] = "run"
    /\ wrappedIn[func] # Unwrapped
    /\ LET r == wrapper(t, func, args, kwargs) IN
       /\ last' = [kind |-> IF r.kind = "raise" THEN "notfound" ELSE "ok",
                   thread |-> t, func |-> func, args |-> args, given |-> kwargs,
                   source |-> r.source, bound |-> r.bound, passed |-> r.args,
                   kwargs |-> r.kwargs, name |-> r.name, available |-> r.available,
                   invoked |-> r.kind = "call",
                   result |-> IF r.kind = "raise" THEN "DependencyNotFoundError"
                              ELSE IF fails THEN "TargetError" ELSE "returned",
                   deps |-> r.deps, before |-> prev]
       /\ IF r.kind = "raise"
          THEN /\ mode' = [mode EXCEPT ![t] = "raise"]
               /\ exc' = [exc EXCEPT ![t] = "DependencyNotFoundError"]
          ELSE IF fails
          THEN /\ mode' = [mode EXCEPT ![t] = "raise"]
               /\ exc' = [exc EXCEPT ![t] = "TargetError"]
          ELSE UNCHANGED <<mode, exc>>
    /\ stack' = SetLocals(t, Top(t), LocalsAfterGet(t, func))
    /\ UNCHANGED <<scopes, walk, lastExit, wrappedIn, annotations>>

\* A wrapped call in a run that keeps no call for comparison
WrappedCall(t, func, args, kwargs, fails) ==
    /\ call(t, func, args, kwargs, fails)
    /\ UNCHANGED prev

\* The scopes open on thread t, outermost first: the frame that opened each
\* and the bindings it was opened with
ActiveScopes(t) ==
    [i \in 1..Len(scopes[t]) |-> [frame |-> scopes[t][i].frame, deps |-> scopes[t][i].deps]]

\* A wrapped call that is kept in prev, with the scopes open and the
\* annotations of func when it was made
KeptCall(t, func, args, kwargs, fails) ==
    /\ call(t, func, args, kwargs, fails)
    /\ prev' = [kind |-> last'.kind, thread |-> t, frame |-> Top(t), func |-> func,
                args |-> args, given |-> kwargs, active |-> ActiveScopes(t),
                annotations |-> annotations[func], deps |-> last'.deps, kwargs |-> last'.kwargs, name |-> last'.name]

\* The program assigns func.__annotations__["b"] = Depends
Annotate(t, func) ==
    /\ mode[t] = "run"
    /\ \A i \in 1..Len(annotations[func]) : annotations[func][i].name # "b"
    /\ annotations' = [annotations EXCEPT
                         ![func] = Append(@, [name |-> "b", anno |-> "Depends"])]
    /\ last' = NoCall
    /\ lastExit' = [lastExit EXCEPT ![t] = NoExit]
    /\ UNCHANGED <<stack, scopes, mode, exc, walk, wrappedIn, prev>>

----------------------------------------------------------------------------
(* Specification *)

\* One step of the program of thread t
Step(t) ==
    \/ CallPlain(t)
    \/ Return(t)
    \/ Raise(t)
    \/ Catch(t)
    \/ \E deps \in Bindings(t) : EnterContext(t, deps)
    \/ BuildLoop(t)
    \/ ExitContext(t)
    \/ Unwind(t)
    \/ \E func \in Funcs : Wrap(t, func)
    \/ \E func \in Funcs, args \in CallerArgs, kwargs \in CallerKwargs, fails \in BOOLEAN :
            WrappedCall(t, func, args, kwargs, fails)

\* The program of the main thread alone
Next == Step("main")

Spec == Init /\ [][Next]_vars

\* One step of thread t of a program of two threads, each within MTDepth
\* frames and MTScopes scopes, calling the functions wrapped at import
StepMT(t) ==
    \/ Top(t) < MTDepth /\ CallPlain(t)
    \/ Return(t)
    \/ Catch(t)
    \/ \E deps \in Bindings(t) : Len(scopes[t]) < MTScopes /\ EnterContext(t, deps)
    \/ BuildLoop(t)
    \/ ExitContext(t)
    \/ Unwind(t)
    \/ \E func \in Funcs, args \in CallerArgs :
            WrappedCall(t, func, args, EmptyDict, FALSE)

NextMT == \E t \in Threads : StepMT(t)

SpecMT == Init /\ [][NextMT]_vars

\* The functions whose __annotations__ the program changes after wrapping them
Reannotated == {"need_a"}

\* One step of a program of thread t that calls the functions wrapped at
\* import again and again, within MTDepth frames and MTScopes scopes, and
\* changes their annotations in between
StepTwice(t) ==
    \/ Top(t) < MTDepth /\ CallPlain(t)
    \/ Return(t)
    \/ Catch(t)
    \/ \E deps \in Bindings(t) : Len(scopes[t]) < MTScopes /\ EnterContext(t, deps)
    \/ BuildLoop(t)
    \/ ExitContext(t)
    \/ Unwind(t)
    \/ \E func \in Reannotated : Annotate(t, func)
    \/ \E func \in Funcs, args \in CallerArgs :
            KeptCall(t, func, args, EmptyDict, FALSE)

NextTwice == StepTwice("main")

SpecTwice == Init /\ [][NextTwice]_vars

----------------------------------------------------------------------------
(* Properties *)

\* Thread t made the wrapped call recorded in last
Called(t) == last.kind # "none" /\ last.thread = t

\* The names func has the wrapper supply
D(func) == {resolve_dependencies(func)[i] : i \in 1..Len(resolve_dependencies(func))}

Innermost(t) == scopes[t][Len(scopes[t])]

\* Every scope open on thread t was opened by the running frame
InOpeningFrame(t) == \A i \in 1..Len(scopes[t]) : scopes[t][i].frame = Top(t)

\* C1: with b1 open and b2 opened inside it by the same frame, both binding
\* n, a wrapped call of that frame that needs n does not fail on n and
\* receives b2[n]; once b2 is left and b1 is still open, a wrapped call that
\* needs n does not fail on n and receives b1[n].
C1_NestedOverrideAndRestore ==
    \A t \in Threads : Called(t) /\ InOpeningFrame(t) =>
        \A n \in D(last.func) :
            /\ ( /\ Len(scopes[t]) >= 2
                 /\ lastExit[t] = NoExit
                 /\ n \in DOMAIN Innermost(t).deps
                 /\ n \in DOMAIN scopes[t][Len(scopes[t]) - 1].deps )
               => /\ last.name # n
                  /\ n \in last.bound => last.kwargs[n] = Innermost(t).deps[n]
            /\ ( /\ Len(scopes[t]) >= 1
                 /\ lastExit[t].how = "normal"
                 /\ n \in DOMAIN lastExit[t].deps
                 /\ n \in DOMAIN Innermost(t).deps )
               => /\ last.name # n
                  /\ n \in last.bound => last.kwargs[n] = Innermost(t).deps[n]

\* The layer the wrapper of a call from the innermost scope's frame reads
Layer(t) == DictGet(stack[t][Innermost(t).frame].f_locals, DEP_VAR, EmptyDict)

\* C2: the step that enters a scope installs the bindings of all scopes
\* then open on the thread, merged outermost first, so that an inner
\* binding wins and every enclosing binding not bound again is kept.
C2_EntryInstallsMerge ==
    [][\A t \in Threads :
          Len(scopes'[t]) > Len(scopes[t]) => Layer(t)' = OpenBindings(t)']_vars

\* C3: with one scope open and its layer in place, a wrapped call made from
\* a frame above the one that opened the scope, needing only names the
\* scope binds, calls the target with the scope's values.
C3_IntermediateCallsResolve ==
    \A t \in Threads :
        ( /\ Called(t)
          /\ Len(scopes[t]) = 1
          /\ Layer(t) = Innermost(t).deps
          /\ Top(t) > Innermost(t).frame
          /\ D(last.func) \subseteq DOMAIN Innermost(t).deps )
        => /\ last.invoked
           /\ \A n \in D(last.func) : last.kwargs[n] = Innermost(t).deps[n]

\* The first name of deps that ctx does not bind ("" when it binds all)
RECURSIVE FirstUnresolved(_, _)
FirstUnresolved(deps, ctx) ==
    IF deps = <<>> THEN ""
    ELSE IF Head(deps) \notin DOMAIN ctx THEN Head(deps)
    ELSE FirstUnresolved(Tail(deps), ctx)

\* C4: at any nesting depth, a wrapped call made by the frame that opened
\* the scopes calls its target, with every dependency bound to the value
\* of the innermost scope binding it, exactly when the open scopes
\* together bind every dependency; otherwise it fails naming the first
\* dependency they do not bind, and the target is not called.
C4_ResolvesIffUnionBinds ==
    \A t \in Threads : Called(t) /\ InOpeningFrame(t) =>
        LET C == OpenBindings(t) IN
        IF D(last.func) \subseteq DOMAIN C
        THEN /\ last.invoked
             /\ \A n \in D(last.func) : last.kwargs[n] = C[n]
        ELSE /\ ~last.invoked
             /\ last.kind = "notfound"
             /\ last.name = FirstUnresolved(resolve_dependencies(last.func), C)

\* C5: a wrapped call needing a name that no open scope of the thread
\* binds raises DependencyNotFoundError carrying a needed name that is
\* not bound, the callable, and the names the open scopes bind; the target
\* is not called.
C5_MissingNameFails ==
    \A t \in Threads :
        LET C == OpenBindings(t) IN
        Called(t) /\ ~(D(last.func) \subseteq DOMAIN C) =>
            /\ last.kind = "notfound"
            /\ ~last.invoked
            /\ mode[t] = "raise" /\ exc[t] = "DependencyNotFoundError"
            /\ last.name \in D(last.func) \ DOMAIN C
            /\ last.available = DOMAIN C

\* C6: entering a scope terminates at every call depth: the walk of
\* _build_dependencies makes at most one iteration for each frame that has
\* an enclosing frame, after which the body starts.
C6_EntryTerminates ==
    \A t \in Threads : mode[t] = "build" => walk[t].n <= Top(t) - 1

\* Frame i of thread t holds a layer only while a scope it opened is open
NoStaleLayer(t) ==
    \A i \in 1..Top(t) :
        DEP_VAR \in DOMAIN stack[t][i].f_locals =>
            \E j \in 1..Len(scopes[t]) : scopes[t][j].frame = i

\* C7: when an error leaves a scope, the layer of that scope is gone and
\* the bindings of the scopes still open are in force again, no frame
\* keeps a layer of a scope that is closed, and the error that propagates
\* is still the one that was raised, not an error of the exit itself.
C7_ExitOnError ==
    \A t \in Threads : lastExit[t].how = "error" =>
        /\ exc[t] # "KeyError"
        /\ NoStaleLayer(t)
        /\ scopes[t] # <<>> =>
              /\ DEP_VAR \in DOMAIN stack[t][Innermost(t).frame].f_locals
              /\ Layer(t) = OpenBindings(t)

C9_ThreadIsolation ==
    \A t \in Threads : Called(t) =>
        /\ \A n \in last.bound :
              \E i \in 1..Len(scopes[t]) :
                  /\ n \in DOMAIN scopes[t][i].deps
                  /\ scopes[t][i].deps[n] = last.kwargs[n]
        /\ scopes[t] = <<>> => last.bound = {} /\ last.available = {}

\* The worker's call received its own binding of a name while the main
\* thread had a layer in place binding the same name
C9_Witness ==
    /\ Called("worker")
    /\ last.invoked
    /\ "a" \in last.bound
    /\ \E b \in Bindings("worker") : b["a"] = last.kwargs["a"]
    /\ DEP_VAR \in DOMAIN stack["main"][1].f_locals
    /\ "a" \in DOMAIN stack["main"][1].f_locals[DEP_VAR]
    /\ stack["main"][1].f_locals[DEP_VAR]["a"] # last.kwargs["a"]

\* C10: the mapping a wrapped call reads as its context is, at every call,
\* the merge of the scopes open on the calling thread at that moment:
\* nothing of a scope that is closed, everything of each scope that is
\* open, and the empty mapping when none is open.
C10_ObservedIsMergeOfOpen ==
    \A t \in Threads : Called(t) => last.source = OpenBindings(t)


\* No parameter of func is annotated as a dependency
NoneMarked(func) ==
    \A i \in 1..Len(annotations[func]) : annotations[func][i].anno # "Depends"

\* C11: a wrapped call of a function that marks no parameter as a
\* dependency, with or without a scope open, never raises
\* DependencyNotFoundError and calls the target with exactly the positional
\* and keyword arguments the caller passed, nothing bound in addition.
C11_NoDependenciesPassThrough ==
    \A t \in Threads : (Called(t) /\ NoneMarked(last.func)) =>
        /\ last.kind = "ok"
        /\ last.invoked
        /\ exc[t] # "DependencyNotFoundError"
        /\ last.passed = last.args
        /\ last.kwargs = last.given
        /\ last.bound = {}

\* With no scope open, a function without dependencies was called with a
\* positional and a keyword argument
C11_Witness ==
    /\ Called("main")
    /\ NoneMarked(last.func)
    /\ scopes["main"] = <<>>
    /\ last.args # <<>>
    /\ last.given # EmptyDict
    /\ last.invoked


\* C12: a wrapped call made by the same frame with the same function, the
\* same arguments, the same dependency names and the same scopes open as an
\* earlier call has the outcome of the earlier call (the same keyword
\* arguments for the target, or the same missing name), whatever calls and
\* scope entries and exits happened in between.
C12_SameCallSameOutcome ==
    \A t \in Threads :
        ( /\ Called(t)
          /\ last.before.kind # "none"
          /\ last.before.thread = t
          /\ last.before.frame = Top(t)
          /\ last.before.func = last.func
          /\ last.before.args = last.args
          /\ last.before.given = last.given
          /\ last.before.deps = last.deps
          /\ last.before.active = ActiveScopes(t) )
        => /\ last.kind = last.before.kind
           /\ last.kwargs = last.before.kwargs
           /\ last.name = last.before.name


\* The bindings the wrapper adds for the dependencies of func: source[n] for
\* each name n it resolved
Injected(deps, source) ==
    [n \in {deps[i] : i \in 1..Len(deps)} |-> source[n]]

\* C13: when every dependency resolves, the wrapper calls the target once,
\* with the positional arguments the caller passed, the keyword arguments
\* the caller passed under names that are no dependency, and one keyword
\* argument per dependency holding the value the wrapper read; the call
\* returns if the target returns and raises the target's own error if the
\* target raises.
C13_CallsTargetWithInjected ==
    \A t \in Threads : (Called(t) /\ last.kind = "ok") =>
        /\ last.invoked
        /\ last.passed = last.args
        /\ DOMAIN last.kwargs = DOMAIN last.given \cup DOMAIN Injected(last.deps, last.source)
        /\ \A k \in DOMAIN last.given \ DOMAIN Injected(last.deps, last.source) :
              last.kwargs[k] = last.given[k]
        /\ \A n \in DOMAIN Injected(last.deps, last.source) :
              last.kwargs[n] = Injected(last.deps, last.source)[n]
        /\ last.result \in {"returned", "TargetError"}
        /\ last.result = "returned" => mode[t] = "run" /\ exc[t] = ""
        /\ last.result = "TargetError" => mode[t] = "raise" /\ exc[t] = "TargetError"

\* greet("Kotlin", y=8) under a scope binding the dependency reached the
\* target as greet("Kotlin", y=8, a=1)
C13_Witness ==
    /\ Called("main")
    /\ last.invoked
    /\ last.args = <<"Kotlin">>
    /\ "y" \in DOMAIN last.given
    /\ last.deps # <<>>
    /\ DOMAIN last.kwargs = DOMAIN last.given \cup last.bound
    /\ last.bound # {}
    /\ last.result = "returned"


\* C14: a step that is a wrapped call, whether the target is reached or
\* DependencyNotFoundError is raised, leaves the locals of every frame
\* (which frames hold a layer, and what each layer maps) and the open
\* scopes as they were.
C14_CallLeavesScopesAlone ==
    [][last'.kind # "none" =>
            /\ stack' = stack
            /\ scopes' = scopes]_vars

\* A call failed on a missing name inside an open scope whose layer is
\* still in the frame that opened it
C14_Witness ==
    /\ Called("main")
    /\ last.kind = "notfound"
    /\ scopes["main"] # <<>>
    /\ Layer("main") = Innermost("main").deps
    /\ last.source = Layer("main")


\* C15: no exit of a scope raises an error of its own: after the exit of
\* any scope of a properly nested sequence, two scopes opened by the same
\* frame included, the thread is not raising KeyError, the error of a pop
\* that finds no layer.
C15_ExitNeverFails ==
    \A t \in Threads :
        lastExit[t].how # "none" => ~(mode[t] = "raise" /\ exc[t] = "KeyError")


\* C16: when the caller passes a keyword argument under the name n of a
\* dependency: if the context the wrapper reads binds n, the call does not
\* fail on n and a target that is reached receives under n the value of the
\* open scope, not the caller's; if it does not bind n (as when no open
\* scope binds n), the call raises DependencyNotFoundError and the target is
\* not reached, although the caller supplied a value.
C16_ScopeValueReplacesCallers ==
    \A t \in Threads : Called(t) =>
        \A n \in DOMAIN last.given \cap {last.deps[i] : i \in 1..Len(last.deps)} :
            /\ n \in DOMAIN last.source =>
                  /\ last.name # n
                  /\ last.invoked =>
                        /\ last.kwargs[n] = last.source[n]
                        /\ n \in DOMAIN OpenBindings(t)
                        /\ last.kwargs[n] = OpenBindings(t)[n]
            /\ n \notin DOMAIN last.source =>
                  /\ last.kind = "notfound"
                  /\ ~last.invoked
                  /\ exc[t] = "DependencyNotFoundError"
            /\ n \notin DOMAIN OpenBindings(t) => n \notin DOMAIN last.source

\* need_a(a=9) inside a scope binding a reached the target with the scope's
\* value in place of 9
C16_Witness ==
    /\ Called("main")
    /\ "a" \in DOMAIN last.given
    /\ "a" \in last.bound
    /\ last.invoked
    /\ last.kwargs["a"] = last.source["a"]
    /\ last.kwargs["a"] # last.given["a"]


====
